---- MODULE Spec2Model ----
(***************************************************************************)
(* Model of scores_4.py: main() runs load_csv_data, calculate_statistics   *)
(* and display_table (which calls find_max_min_average) in sequence and    *)
(* reports failures through its two except clauses.                        *)
(*                                                                         *)
(* Text is a sequence of one-character strings; a participant name is a    *)
(* sequence of code points, so that str comparison is computed.  A float   *)
(* produced by sum(scores)/len(scores) is a fraction in lowest terms       *)
(* [n, d] with d > 0: for the magnitudes reached here two such quotients   *)
(* are the same float exactly when they are the same fraction.             *)
(***************************************************************************)
EXTENDS Integers, Sequences, FiniteSets, TLC

\* Longest input file, in data rows.
MaxRows == 3

\* Participant names "A", "AB", "B" as code points.
Names == {<<65>>, <<65, 66>>, <<66>>}

\* Score fields as they stand in the file: "-1", "0", "1" and "x".
ScoreFields == {<<"-", "1">>, <<"0">>, <<"1">>, <<"x">>}

\* One row as csv.DictReader yields it.
Rows == [name : Names, score : ScoreFields]

SeqsUpTo(S, n) == UNION {[1..m -> S] : m \in 0..n}

------------------------------------------------------------------------------
\* Text and number helpers

Digits == <<"0", "1", "2", "3", "4", "5", "6", "7", "8", "9">>

IsDigit(c) == \E v \in 1..10 : Digits[v] = c

DigitVal(c) == (CHOOSE v \in 1..10 : Digits[v] = c) - 1

RECURSIVE DigitsVal(_)
DigitsVal(s) ==
    IF Len(s) = 0 THEN 0
    ELSE 10 * DigitsVal(SubSeq(s, 1, Len(s) - 1)) + DigitVal(s[Len(s)])

AllDigits(s) == Len(s) > 0 /\ \A p \in 1..Len(s) : IsDigit(s[p])

\* int(text): an optional sign and decimal digits; anything else raises
\* ValueError.  The result is [ok, val].
PyInt(s) ==
    IF Len(s) > 0 /\ s[1] \in {"-", "+"}
    THEN IF AllDigits(Tail(s))
         THEN [ok |-> TRUE,
               val |-> IF s[1] = "-" THEN 0 - DigitsVal(Tail(s)) ELSE DigitsVal(Tail(s))]
         ELSE [ok |-> FALSE, val |-> 0]
    ELSE IF AllDigits(s)
         THEN [ok |-> TRUE, val |-> DigitsVal(s)]
         ELSE [ok |-> FALSE, val |-> 0]

RECURSIVE NatStr(_)
NatStr(v) ==
    IF v < 10 THEN <<Digits[v + 1]>>
    ELSE NatStr(v \div 10) \o <<Digits[(v % 10) + 1]>>

\* str(int)
PyStr(v) == IF v < 0 THEN <<"-">> \o NatStr(0 - v) ELSE NatStr(v)

Abs(v) == IF v < 0 THEN 0 - v ELSE v

RECURSIVE Gcd(_, _)
Gcd(a, b) == IF b = 0 THEN a ELSE Gcd(b, a % b)

\* The float a / b for integers a and b > 0.
TrueDiv(a, b) ==
    LET g == Gcd(Abs(a), b)
    IN  [n |-> a \div g, d |-> b \div g]

FloatLess(x, y) == x.n * y.d < y.n * x.d

\* Value of a local that has not been assigned yet.
NoFloat == [n |-> 0, d |-> 0]

\* str < str: code point by code point, a proper prefix is smaller.
RECURSIVE StrLess(_, _)
StrLess(a, b) ==
    IF Len(b) = 0 THEN FALSE
    ELSE IF Len(a) = 0 THEN TRUE
    ELSE IF a[1] # b[1] THEN a[1] < b[1]
    ELSE StrLess(Tail(a), Tail(b))

RECURSIVE SeqSum(_)
SeqSum(s) == IF Len(s) = 0 THEN 0 ELSE s[1] + SeqSum(Tail(s))

\* scores[-1] taken for the maximum, scores[0] for the minimum.
SeqMaxLast(s) == s[Len(s)]

SeqMinFirst(s) == s[1]

\* max(scores) and min(scores) as a left-to-right scan.
RECURSIVE SeqMax(_)
SeqMax(s) ==
    IF Len(s) = 1 THEN s[1]
    ELSE LET m == SeqMax(SubSeq(s, 1, Len(s) - 1))
         IN  IF s[Len(s)] > m THEN s[Len(s)] ELSE m

RECURSIVE SeqMin(_)
SeqMin(s) ==
    IF Len(s) = 1 THEN s[1]
    ELSE LET m == SeqMin(SubSeq(s, 1, Len(s) - 1))
         IN  IF s[Len(s)] < m THEN s[Len(s)] ELSE m

------------------------------------------------------------------------------
\* Dictionaries keep insertion order: keys is the order, map the content.

EmptyDict == [keys |-> <<>>, map |-> <<>>]

DictHas(dict, key) == \E p \in 1..Len(dict.keys) : dict.keys[p] = key

DictSet(dict, key, value) ==
    [keys |-> IF DictHas(dict, key) THEN dict.keys ELSE Append(dict.keys, key),
     map  |-> [x \in {dict.keys[p] : p \in 1..Len(dict.keys)} \cup {key} |->
                   IF x = key THEN value ELSE dict.map[x]]]

\* scores_by_person[name].append(score) on a defaultdict(list)
AppendScore(sbp, name, score) ==
    DictSet(sbp, name,
            IF DictHas(sbp, name) THEN Append(sbp.map[name], score) ELSE <<score>>)

\* The dictionary stored under statistics[name].
StatEntry(scores) ==
    [average |-> TrueDiv(SeqSum(scores), Len(scores)),
     max     |-> SeqMax(scores),
     min     |-> SeqMin(scores)]

------------------------------------------------------------------------------
\* Pure parts of the pipeline

\* averages[-1] taken for the minimum.
FloatMinLast(s) == s[Len(s)]

\* max(averages) and min(averages): the first largest / smallest element.
RECURSIVE FloatMax(_)
FloatMax(s) ==
    IF Len(s) = 1 THEN s[1]
    ELSE LET m == FloatMax(SubSeq(s, 1, Len(s) - 1))
         IN  IF FloatLess(m, s[Len(s)]) THEN s[Len(s)] ELSE m

RECURSIVE FloatMin(_)
FloatMin(s) ==
    IF Len(s) = 1 THEN s[1]
    ELSE LET m == FloatMin(SubSeq(s, 1, Len(s) - 1))
         IN  IF FloatLess(s[Len(s)], m) THEN s[Len(s)] ELSE m

\* [stat['average'] for stat in statistics.values()]
Averages(stats) == [p \in 1..Len(stats.keys) |-> stats.map[stats.keys[p]].average]

\* find_max_min_average on a non-empty mapping; on an empty one max() raises.
find_max_min_average(stats) ==
    [max_average |-> FloatMax(Averages(stats)),
     min_average |-> FloatMin(Averages(stats))]

\* The two branches of the if / elif exchanged.
EmphasisLowFirst(average, maxAvg, minAvg) ==
    IF average = minAvg THEN "low"
    ELSE IF average = maxAvg THEN "high"
    ELSE "none"

\* The if / elif of display_table that picks a row's colour.
Emphasis(average, maxAvg, minAvg) ==
    IF average = maxAvg THEN "high"
    ELSE IF average = minAvg THEN "low"
    ELSE "none"

\* statistics.keys() iterated without sorted().
Unsorted(s) == s

\* sorted(names): insertion into an ascending list.
RECURSIVE InsertSorted(_, _)
InsertSorted(x, s) ==
    IF Len(s) = 0 THEN <<x>>
    ELSE IF StrLess(x, s[1]) THEN <<x>> \o s
    ELSE <<s[1]>> \o InsertSorted(x, Tail(s))

RECURSIVE Sorted(_)
Sorted(s) ==
    IF Len(s) = 0 THEN <<>>
    ELSE InsertSorted(s[Len(s)], Sorted(SubSeq(s, 1, Len(s) - 1)))

\* format_score: f"{score:.1f}".  The tenths are rounded half to even, which
\* is what the float's exact value gives while the denominator is below 20.
format_score(x) ==
    LET a == Abs(x.n) * 10
        q == a \div x.d
        rem == a % x.d
        t == IF 2 * rem > x.d THEN q + 1
             ELSE IF 2 * rem < x.d THEN q
             ELSE IF q % 2 = 0 THEN q ELSE q + 1
    IN  (IF x.n < 0 THEN <<"-">> ELSE <<>>)
            \o NatStr(t \div 10) \o <<".">> \o <<Digits[(t % 10) + 1]>>

\* The line display_table prints for one participant (column texts only).
TableRow(stats, name, maxAvg, minAvg) ==
    [kind     |-> "row",
     name     |-> name,
     avg_str  |-> format_score(stats.map[name].average),
     max_str  |-> PyStr(stats.map[name].max),
     min_str  |-> PyStr(stats.map[name].min),
     emphasis |-> Emphasis(stats.map[name].average, maxAvg, minAvg)]

Line(kind) == [kind |-> kind]

\* except Exception placed before except FileNotFoundError.
HandlerGenericFirst(e) == "except_other"

\* The except clause of main that handles an exception, in clause order.
Handler(e) ==
    IF e.type = "FileNotFoundError" THEN "except_not_found" ELSE "except_other"

NoExc == [type |-> "none", desc |-> ""]

------------------------------------------------------------------------------
\* The run of main()

VARIABLES
    fileExists,        \* whether CSV_FILE exists
    fileRows,          \* the data rows of the file
    file_open,         \* the file object of load_csv_data is open
    pc,                \* position of the run
    idx,               \* position of the loop under way
    data,              \* list built by load_csv_data
    scores_by_person,  \* defaultdict(list) of calculate_statistics
    statistics,        \* dict built by calculate_statistics
    max_average,       \* locals of display_table
    min_average,
    exc,               \* exception in flight
    output             \* lines printed so far

vars == <<fileExists, fileRows, file_open, pc, idx, data, scores_by_person,
          statistics, max_average, min_average, exc, output>>

Init ==
    /\ fileExists \in BOOLEAN
    /\ fileRows \in SeqsUpTo(Rows, MaxRows)
    /\ (~fileExists => fileRows = <<>>)
    /\ file_open = FALSE
    /\ pc = "main"
    /\ idx = 0
    /\ data = <<>>
    /\ scores_by_person = EmptyDict
    /\ statistics = EmptyDict
    /\ max_average = NoFloat
    /\ min_average = NoFloat
    /\ exc = NoExc
    /\ output = <<>>

\* main: the first progress message, then the call of load_csv_data.
MainStart ==
    /\ pc = "main"
    /\ output' = Append(output, Line("reading"))
    /\ pc' = "open"
    /\ UNCHANGED <<fileExists, fileRows, file_open, idx, data, scores_by_person,
                   statistics, max_average, min_average, exc>>

\* load_csv_data: data = [] and open(); a missing file raises.
OpenFile ==
    /\ pc = "open"
    /\ data' = <<>>
    /\ IF fileExists
       THEN /\ file_open' = TRUE
            /\ idx' = 1
            /\ pc' = "load_loop"
            /\ exc' = exc
       ELSE /\ exc' = [type |-> "FileNotFoundError", desc |-> "No such file or directory"]
            /\ pc' = Handler(exc')
            /\ UNCHANGED <<file_open, idx>>
    /\ UNCHANGED <<fileExists, fileRows, scores_by_person, statistics,
                   max_average, min_average, output>>

\* A loader that converts the score while it reads.
LoadRowChecked ==
    /\ pc = "load_loop"
    /\ idx <= Len(fileRows)
    /\ IF PyInt(fileRows[idx].score).ok
       THEN /\ data' = Append(data, fileRows[idx])
            /\ idx' = idx + 1
            /\ UNCHANGED <<file_open, pc, exc>>
       ELSE /\ file_open' = FALSE
            /\ exc' = [type |-> "ValueError",
                       desc |-> "invalid literal for int() with base 10"]
            /\ pc' = Handler(exc')
            /\ UNCHANGED <<data, idx>>
    /\ UNCHANGED <<fileExists, fileRows, scores_by_person, statistics,
                   max_average, min_average, output>>

\* One turn of "for row in csv_reader": data.append(row).
LoadRow ==
    /\ pc = "load_loop"
    /\ idx <= Len(fileRows)
    /\ data' = Append(data, fileRows[idx])
    /\ idx' = idx + 1
    /\ UNCHANGED <<fileExists, fileRows, file_open, pc, scores_by_person,
                   statistics, max_average, min_average, exc, output>>

\* The file opened without a with block: an exception leaves it open.
LoadReadErrorLeak ==
    /\ pc = "load_loop"
    /\ idx <= Len(fileRows)
    /\ exc' = [type |-> "UnicodeDecodeError", desc |-> "invalid start byte"]
    /\ pc' = Handler(exc')
    /\ UNCHANGED <<fileExists, fileRows, file_open, idx, data, scores_by_person,
                   statistics, max_average, min_average, output>>

\* Reading the next row fails (undecodable bytes): the with block closes the
\* file and the exception leaves load_csv_data.
LoadReadError ==
    /\ pc = "load_loop"
    /\ idx <= Len(fileRows)
    /\ file_open' = FALSE
    /\ exc' = [type |-> "UnicodeDecodeError", desc |-> "invalid start byte"]
    /\ pc' = Handler(exc')
    /\ UNCHANGED <<fileExists, fileRows, idx, data, scores_by_person, statistics,
                   max_average, min_average, output>>

\* The reader is exhausted: the with block closes the file, data is returned.
LoadReturn ==
    /\ pc = "load_loop"
    /\ idx > Len(fileRows)
    /\ file_open' = FALSE
    /\ pc' = "loaded"
    /\ UNCHANGED <<fileExists, fileRows, idx, data, scores_by_person, statistics,
                   max_average, min_average, exc, output>>

\* main: the two progress messages around the return of load_csv_data, then
\* the call of calculate_statistics.
MainLoaded ==
    /\ pc = "loaded"
    /\ output' = output \o <<[kind |-> "loaded", count |-> Len(data)],
                             Line("calculating")>>
    /\ scores_by_person' = EmptyDict
    /\ idx' = 1
    /\ pc' = "group_loop"
    /\ UNCHANGED <<fileExists, fileRows, file_open, data, statistics,
                   max_average, min_average, exc>>

\* A grouping loop that skips a row whose score int() rejects.
GroupRowSkipping ==
    /\ pc = "group_loop"
    /\ idx <= Len(data)
    /\ LET row == data[idx]
           score == PyInt(row.score)
       IN  scores_by_person' =
               IF score.ok THEN AppendScore(scores_by_person, row.name, score.val)
               ELSE scores_by_person
    /\ idx' = idx + 1
    /\ UNCHANGED <<fileExists, fileRows, file_open, pc, data, statistics,
                   max_average, min_average, exc, output>>

\* One turn of "for row in data": int() of the score, append to the group.
GroupRow ==
    /\ pc = "group_loop"
    /\ idx <= Len(data)
    /\ LET row == data[idx]
           score == PyInt(row.score)
       IN  IF score.ok
           THEN /\ scores_by_person' = AppendScore(scores_by_person, row.name, score.val)
                /\ idx' = idx + 1
                /\ UNCHANGED <<pc, exc>>
           ELSE /\ exc' = [type |-> "ValueError",
                           desc |-> "invalid literal for int() with base 10"]
                /\ pc' = Handler(exc')
                /\ UNCHANGED <<scores_by_person, idx>>
    /\ UNCHANGED <<fileExists, fileRows, file_open, data, statistics,
                   max_average, min_average, output>>

\* End of the grouping loop: statistics = {}.
GroupDone ==
    /\ pc = "group_loop"
    /\ idx > Len(data)
    /\ statistics' = EmptyDict
    /\ idx' = 1
    /\ pc' = "stat_loop"
    /\ UNCHANGED <<fileExists, fileRows, file_open, data, scores_by_person,
                   max_average, min_average, exc, output>>

\* One turn of "for name, scores in scores_by_person.items()".
StatRow ==
    /\ pc = "stat_loop"
    /\ idx <= Len(scores_by_person.keys)
    /\ LET name == scores_by_person.keys[idx]
       IN  statistics' = DictSet(statistics, name,
                                 StatEntry(scores_by_person.map[name]))
    /\ idx' = idx + 1
    /\ UNCHANGED <<fileExists, fileRows, file_open, pc, data, scores_by_person,
                   max_average, min_average, exc, output>>

\* calculate_statistics returns; main prints the count and calls display_table.
StatReturn ==
    /\ pc = "stat_loop"
    /\ idx > Len(scores_by_person.keys)
    /\ output' = Append(output, [kind |-> "calculated", count |-> Len(statistics.keys)])
    /\ pc' = "find"
    /\ UNCHANGED <<fileExists, fileRows, file_open, idx, data, scores_by_person,
                   statistics, max_average, min_average, exc>>

\* max(averages, default=0.0) and min(averages, default=0.0).
FindExtremesDefault ==
    /\ pc = "find"
    /\ IF Len(statistics.keys) = 0
       THEN /\ max_average' = TrueDiv(0, 1)
            /\ min_average' = TrueDiv(0, 1)
       ELSE /\ max_average' = find_max_min_average(statistics).max_average
            /\ min_average' = find_max_min_average(statistics).min_average
    /\ pc' = "header"
    /\ UNCHANGED <<fileExists, fileRows, file_open, idx, data, scores_by_person,
                   statistics, exc, output>>

\* display_table calls find_max_min_average: max() of an empty list raises.
FindExtremes ==
    /\ pc = "find"
    /\ IF Len(statistics.keys) = 0
       THEN /\ exc' = [type |-> "ValueError", desc |-> "max() arg is an empty sequence"]
            /\ pc' = Handler(exc')
            /\ UNCHANGED <<max_average, min_average>>
       ELSE /\ max_average' = find_max_min_average(statistics).max_average
            /\ min_average' = find_max_min_average(statistics).min_average
            /\ pc' = "header"
            /\ exc' = exc
    /\ UNCHANGED <<fileExists, fileRows, file_open, idx, data, scores_by_person,
                   statistics, output>>

\* The three header lines of the table.
PrintHeader ==
    /\ pc = "header"
    /\ output' = output \o <<Line("rule"), Line("header"), Line("rule")>>
    /\ idx' = 1
    /\ pc' = "row_loop"
    /\ UNCHANGED <<fileExists, fileRows, file_open, data, scores_by_person,
                   statistics, max_average, min_average, exc>>

\* One turn of "for name in sorted(statistics.keys())".
PrintRow ==
    /\ pc = "row_loop"
    /\ idx <= Len(statistics.keys)
    /\ output' = Append(output, TableRow(statistics, Sorted(statistics.keys)[idx],
                                         max_average, min_average))
    /\ idx' = idx + 1
    /\ UNCHANGED <<fileExists, fileRows, file_open, pc, data, scores_by_person,
                   statistics, max_average, min_average, exc>>

\* The closing rule and the legend; display_table and main return.
PrintFooter ==
    /\ pc = "row_loop"
    /\ idx > Len(statistics.keys)
    /\ output' = output \o <<Line("rule"), Line("legend"),
                             Line("legend_high"), Line("legend_low")>>
    /\ pc' = "done"
    /\ UNCHANGED <<fileExists, fileRows, file_open, idx, data, scores_by_person,
                   statistics, max_average, min_average, exc>>

\* except FileNotFoundError: the message and the hint that follows it.
ExceptNotFound ==
    /\ pc = "except_not_found"
    /\ output' = output \o <<Line("not_found"), Line("not_found_hint")>>
    /\ exc' = NoExc
    /\ pc' = "done"
    /\ UNCHANGED <<fileExists, fileRows, file_open, idx, data, scores_by_person,
                   statistics, max_average, min_average>>

\* except Exception as e: the generic message with str(e).
ExceptOther ==
    /\ pc = "except_other"
    /\ output' = Append(output, [kind |-> "error", desc |-> exc.desc])
    /\ exc' = NoExc
    /\ pc' = "done"
    /\ UNCHANGED <<fileExists, fileRows, file_open, idx, data, scores_by_person,
                   statistics, max_average, min_average>>

Next ==
    \/ MainStart
    \/ OpenFile
    \/ LoadRow
    \/ LoadReadError
    \/ LoadReturn
    \/ MainLoaded
    \/ GroupRow
    \/ GroupDone
    \/ StatRow
    \/ StatReturn
    \/ FindExtremes
    \/ PrintHeader
    \/ PrintRow
    \/ PrintFooter
    \/ ExceptNotFound
    \/ ExceptOther

Spec == Init /\ [][Next]_vars

TypeOK ==
    /\ pc \in {"main", "open", "load_loop", "loaded", "group_loop", "stat_loop",
               "find", "header", "row_loop", "except_not_found", "except_other",
               "done"}
    /\ file_open \in BOOLEAN

------------------------------------------------------------------------------
\* calculate_statistics as a function of its argument

AllParse(d) == \A p \in 1..Len(d) : PyInt(d[p].score).ok

\* The first loop of calculate_statistics.
RECURSIVE GroupScores(_)
GroupScores(d) ==
    IF Len(d) = 0 THEN EmptyDict
    ELSE AppendScore(GroupScores(SubSeq(d, 1, Len(d) - 1)),
                     d[Len(d)].name, PyInt(d[Len(d)].score).val)

\* The second loop of calculate_statistics over the first p groups.
RECURSIVE StatsUpTo(_, _)
StatsUpTo(sbp, p) ==
    IF p = 0 THEN EmptyDict
    ELSE DictSet(StatsUpTo(sbp, p - 1), sbp.keys[p], StatEntry(sbp.map[sbp.keys[p]]))

\* The value calculate_statistics returns when every score parses.
calculate_statistics(d) == StatsUpTo(GroupScores(d), Len(GroupScores(d).keys))

Reorderings(s) ==
    {[p \in 1..Len(s) |-> s[f[p]]] :
        f \in {g \in [1..Len(s) -> 1..Len(s)] : \A a, b \in 1..Len(s) : g[a] = g[b] => a = b}}

\* The loops of the run compute what the function computes.
StepwiseAgrees ==
    pc \in {"find", "header", "row_loop"} => statistics = calculate_statistics(data)

------------------------------------------------------------------------------
\* Vocabulary of the properties

A == <<65>>
AB == <<65, 66>>
B == <<66>>

Row(name, score) == [name |-> name, score |-> score]

TableKinds == {"rule", "header", "row", "legend", "legend_high", "legend_low"}

HasKind(kind) == \E p \in 1..Len(output) : output[p].kind = kind

NoTableLine == \A p \in 1..Len(output) : output[p].kind \notin TableKinds

RowPositions == {p \in 1..Len(output) : output[p].kind = "row"}

Marked(e) == {p \in RowPositions : output[p].emphasis = e}

HasBadScore == \E p \in 1..Len(fileRows) : ~PyInt(fileRows[p].score).ok

StatNames == DOMAIN statistics.map

AverageOf(name) == statistics.map[name].average

\* Participants whose average no other average exceeds / undercuts.
TopNames == {x \in StatNames : \A y \in StatNames : ~FloatLess(AverageOf(x), AverageOf(y))}

BottomNames == {x \in StatNames : \A y \in StatNames : ~FloatLess(AverageOf(y), AverageOf(x))}

FullTie == \A x, y \in StatNames : AverageOf(x) = AverageOf(y)

TableDone == pc = "done" /\ HasKind("legend")

IsPrefix(s, t) == Len(s) <= Len(t) /\ SubSeq(t, 1, Len(s)) = s

------------------------------------------------------------------------------
\* Properties

\* C1: every entry calculate_statistics produces has min <= average <= max,
\* where average is sum(scores) / count of that participant's scores
\* (min * count <= sum <= max * count).
MinAverageMax ==
    \A name \in StatNames :
        LET e == statistics.map[name]
            scores == scores_by_person.map[name]
        IN  /\ e.average.d > 0
            /\ e.average.n * Len(scores) = SeqSum(scores) * e.average.d
            /\ e.min * e.average.d <= e.average.n
            /\ e.average.n <= e.max * e.average.d
            /\ e.min * Len(scores) <= SeqSum(scores)
            /\ SeqSum(scores) <= e.max * Len(scores)

MinAverageMaxReached ==
    /\ pc = "find"
    /\ \E name \in StatNames :
           /\ Len(scores_by_person.map[name]) = 3
           /\ statistics.map[name].min < 0
           /\ statistics.map[name].max > 0
           /\ statistics.map[name].average = [n |-> 1, d |-> 3]

\* C2: calculate_statistics returns the same mapping (the same names, and for
\* each name the same average, max and min) for every permutation of its
\* argument.
OrderIndependent ==
    pc = "find" =>
        \A d \in Reorderings(data) :
            /\ AllParse(d)
            /\ calculate_statistics(d).map = statistics.map

OrderIndependentReached ==
    /\ pc = "find"
    /\ Len(data) = MaxRows
    /\ Len(statistics.keys) = 2
    /\ \E name \in StatNames : statistics.map[name].min < statistics.map[name].max
    /\ \E d \in Reorderings(data) :
           calculate_statistics(d).keys # statistics.keys

\* C3 as stated: exactly one row is marked "high" and exactly one "low",
\* unless all averages are equal, and then all rows are marked "high".
ExactlyOneHighOneLow ==
    TableDone =>
        IF FullTie
        THEN Marked("high") = RowPositions
        ELSE Cardinality(Marked("high")) = 1 /\ Cardinality(Marked("low")) = 1

\* C3 amended: the rows marked "high" are the rows of the participants with
\* the highest average, at least one; unless all averages are equal the rows
\* marked "low" are the rows of the participants with the lowest average, at
\* least one; when all averages are equal all rows are "high" and none "low".
HighLowRows ==
    TableDone =>
        /\ Cardinality(RowPositions) = Cardinality(StatNames)
        /\ Cardinality(Marked("high")) >= 1
        /\ {output[p].name : p \in Marked("high")} = TopNames
        /\ Cardinality(Marked("high")) = Cardinality(TopNames)
        /\ IF FullTie
           THEN Marked("high") = RowPositions /\ Marked("low") = {}
           ELSE /\ Cardinality(Marked("low")) >= 1
                /\ {output[p].name : p \in Marked("low")} = BottomNames
                /\ Cardinality(Marked("low")) = Cardinality(BottomNames)

HighLowRowsReached ==
    /\ TableDone
    /\ ~FullTie
    /\ Cardinality(Marked("high")) = 2
    /\ Cardinality(Marked("low")) = 1

\* C4: a row is "high" iff its average equals max_average, "low" iff it
\* equals min_average and not max_average, plain otherwise, against the
\* extremes find_max_min_average computed once; so when max_average equals
\* min_average every row is "high" and none is "low".
FirstMatchEmphasis ==
    /\ pc \in {"header", "row_loop"} \/ TableDone =>
           /\ max_average = find_max_min_average(statistics).max_average
           /\ min_average = find_max_min_average(statistics).min_average
           /\ \A x \in StatNames :
                  /\ ~FloatLess(max_average, AverageOf(x))
                  /\ ~FloatLess(AverageOf(x), min_average)
    /\ \A p \in RowPositions :
           LET average == AverageOf(output[p].name)
           IN  /\ output[p].emphasis = "high" <=> average = max_average
               /\ output[p].emphasis = "low" <=>
                      (average = min_average /\ average # max_average)
               /\ output[p].emphasis = "none" <=>
                      (average # min_average /\ average # max_average)
    /\ (RowPositions # {} /\ max_average = min_average) =>
           Marked("high") = RowPositions /\ Marked("low") = {}

\* Rows (A, -1), (B, 0), (A, 1): both averages are 0.0.
FirstMatchEmphasisReached ==
    /\ TableDone
    /\ fileRows = <<Row(A, <<"-", "1">>), Row(B, <<"0">>), Row(A, <<"1">>)>>
    /\ max_average = min_average
    /\ Cardinality(Marked("high")) = 2
    /\ Marked("low") = {}

\* C5: the data rows of the table are in strictly ascending lexicographic
\* order of participant name, whatever the order of the input rows and the
\* insertion order of the statistics mapping.
RowsAscending ==
    /\ \A p, q \in RowPositions : p < q => StrLess(output[p].name, output[q].name)
    /\ TableDone => {output[p].name : p \in RowPositions} = StatNames

RowsAscendingReached ==
    /\ TableDone
    /\ statistics.keys = <<B, AB, A>>
    /\ Cardinality(RowPositions) = 3

\* C6 as stated: when the file does not exist the output is the "file not
\* found" message and nothing else, no progress message included.
OnlyNotFoundMessage ==
    (~fileExists /\ pc = "done") =>
        \A p \in 1..Len(output) : output[p].kind \in {"not_found", "not_found_hint"}

\* C6 amended: when the file does not exist the output of the run is the
\* first progress message followed by the "file not found" message and its
\* hint, and nothing else: no other progress message, no generic error
\* message and no table line.
NotFoundOutput ==
    ~fileExists =>
        /\ IsPrefix(output, <<Line("reading"), Line("not_found"), Line("not_found_hint")>>)
        /\ pc = "done" =>
               output = <<Line("reading"), Line("not_found"), Line("not_found_hint")>>

NotFoundOutputReached ==
    /\ ~fileExists
    /\ pc = "done"
    /\ HasKind("not_found")

\* C7: if any row, at any position, has a score that int() rejects, the run
\* ends by printing the generic error message with the failure description
\* and no part of the table is ever printed.
BadScoreNoTable ==
    HasBadScore =>
        /\ NoTableLine
        /\ pc = "done" =>
               /\ output[Len(output)].kind = "error"
               /\ output[Len(output)].desc \in
                      {"invalid literal for int() with base 10", "invalid start byte"}
               /\ Cardinality({p \in 1..Len(output) : output[p].kind = "error"}) = 1

BadScoreNoTableReached ==
    /\ pc = "done"
    /\ Len(fileRows) = MaxRows
    /\ \A p \in 1..(MaxRows - 1) : PyInt(fileRows[p].score).ok
    /\ ~PyInt(fileRows[MaxRows].score).ok
    /\ output[Len(output)].kind = "error"
    /\ output[Len(output)].desc = "invalid literal for int() with base 10"

\* C8 as stated: with a row whose score int() rejects the load step fails, so
\* the run reaches neither the "N records loaded" message nor the aggregation.
LoaderRejectsBadScore ==
    HasBadScore =>
        /\ ~HasKind("loaded")
        /\ pc \notin {"loaded", "group_loop", "stat_loop"}

\* C8 amended: the load step does not look at the score: unless reading
\* fails, it returns every row, the run prints the "N records loaded"
\* message with N counting the bad row, and the ValueError is raised by int()
\* in the aggregation stage, before any statistics entry is made.
BadScoreFailsInAggregation ==
    HasBadScore =>
        /\ pc \in {"loaded", "group_loop"} => data = fileRows
        /\ exc.type = "ValueError" =>
               /\ data = fileRows
               /\ ~PyInt(data[idx].score).ok
               /\ \A p \in 1..(idx - 1) : PyInt(data[p].score).ok
               /\ statistics = EmptyDict
               /\ output = <<Line("reading"),
                             [kind |-> "loaded", count |-> Len(fileRows)],
                             Line("calculating")>>
        /\ (pc = "done" /\ HasKind("loaded")) =>
               output = <<Line("reading"),
                          [kind |-> "loaded", count |-> Len(fileRows)],
                          Line("calculating"),
                          [kind |-> "error",
                           desc |-> "invalid literal for int() with base 10"]>>

BadScoreFailsInAggregationReached ==
    /\ pc = "done"
    /\ HasBadScore
    /\ HasKind("loaded")
    /\ HasKind("error")
    /\ ~PyInt(fileRows[1].score).ok

\* C9: when the file exists but has no data rows, find_max_min_average fails
\* on the empty mapping, main prints the generic error message with the
\* failure description, and no part of the table is printed.
EmptyInputFails ==
    (fileExists /\ fileRows = <<>>) =>
        /\ NoTableLine
        /\ pc \notin {"header", "row_loop"}
        /\ exc.type # "none" =>
               /\ exc.desc = "max() arg is an empty sequence"
               /\ statistics = EmptyDict
               /\ HasKind("calculated")
        /\ pc = "done" =>
               output = <<Line("reading"),
                          [kind |-> "loaded", count |-> 0],
                          Line("calculating"),
                          [kind |-> "calculated", count |-> 0],
                          [kind |-> "error", desc |-> "max() arg is an empty sequence"]>>

EmptyInputFailsReached ==
    /\ fileExists
    /\ fileRows = <<>>
    /\ pc = "done"
    /\ HasKind("error")

\* C10: the file is open only during the load step: while aggregation,
\* extremes, rendering or error reporting runs, and once the run has ended,
\* the file is closed, also when reading a row raised inside load_csv_data.
FileOpenOnlyInLoad ==
    /\ file_open => pc = "load_loop"
    /\ pc = "load_loop" => file_open

FileOpenOnlyInLoadReached ==
    /\ pc = "except_other"
    /\ exc.type = "UnicodeDecodeError"
    /\ Len(data) >= 1
    /\ ~file_open

====
